---- MODULE Spec2Model ----
(***************************************************************************)
(* Model of generate_ai_summaries.js: one run of main() (CSV fetch, range  *)
(* selection, per-record summary loop, write-back of the result store and  *)
(* the cursor) and of callAISummary() (precondition check, retry loop).    *)
(*                                                                         *)
(* Strings that the code builds by concatenation are sequences of their    *)
(* parts; a comment string is a sequence of characters.  An optional value *)
(* (a file that may not exist, an exit code) is <<>> or <<value>>.         *)
(***************************************************************************)
EXTENDS Integers, Sequences, FiniteSets, TLC

\* ------------------------------ bounds -----------------------------------
MaxProfs == 2
MaxBatch == 2
MaxCursor == 3
MaxCommentLen == 2
MaxRows == 2
\* the comment limit (1200 in the code), scaled to the short strings drawn here
cutoff == 4

\* --------------------------- program constants ---------------------------
retries == 3
REQUEST_DELAY_MS == 5000
FALLBACK == <<"AI summary unavailable.">>

AllNames == <<"Ann Lee", "Bo Diaz", "Cy Ng", "Di Wu">>
AllLinks == <<"https://polyratings.dev/professor/1",
              "https://polyratings.dev/professor/2",
              "https://polyratings.dev/professor/3",
              "https://polyratings.dev/professor/4">>
\* `https://polyratings.dev/professor/${profName.toLowerCase().replace(/\s+/g, "-")}`
AllSlugLinks == <<"https://polyratings.dev/professor/ann-lee",
                  "https://polyratings.dev/professor/bo-diaz",
                  "https://polyratings.dev/professor/cy-ng",
                  "https://polyratings.dev/professor/di-wu">>
Names == {AllNames[k] : k \in 1..MaxProfs}
Urls == {"RATINGS_URL", "COMMENTS_URL"}

OldSummary == <<"stored summary">>
GeneratedText == <<"generated summary">>
StoredValues == {FALLBACK, OldSummary}

VARIABLES
    pc,               \* position of main()
    exitCode,         \* <<>> while running, <<0>> or <<1>> once the process ended
    WEEKLY_MODE,      \* getWeeklyMode()
    DAILY_BATCH_SIZE, \* batch size of daily mode
    fetched,          \* state of each fetchCSV request
    fetchCount,       \* requests issued per CSV url
    professors,       \* convertCSVToProfessorData(ratings, comments)
    outputFile,       \* summaries/ai_summaries.json: <<>> absent, <<map>> present
    stateFile,        \* summaries/state.json: <<>> absent, <<lastIndex>> present
    results, startIndex, endIndex, batch, i, processed, skipped,
    outputWrites,     \* writes of OUTPUT_FILE in this run
    stateWrites,      \* writes of STATE_FILE in this run
    outputFile0,      \* OUTPUT_FILE as it was when the run started
    stateFile0,       \* STATE_FILE as it was when the run started
    calls,            \* callAISummary invocations per name in this run
    summaries,        \* value returned by the call made for a name, <<>> if none
    visited,          \* names reached by the loop, in order
    delays,           \* inter-request delays slept (ms), in order
    ratings, comments,\* rows parsed from the two CSV documents
    run,              \* number of this run of the script (1, 2, ...)
    allDaily,         \* every run so far, this one included, is a daily run
    \* callAISummary
    prof, attempt, cpc, waitTime, nreq, ret,
    \* observation of one callAISummary call
    outcomes,         \* outcome of each request, in order
    sleeps            \* delays slept, in order

mainVars == <<pc, exitCode, WEEKLY_MODE, DAILY_BATCH_SIZE, fetched, fetchCount,
              professors, outputFile, stateFile, results, startIndex, endIndex,
              batch, i, processed, skipped, outputWrites, stateWrites,
              outputFile0, stateFile0, calls, summaries, visited, delays>>
callVars == <<prof, attempt, cpc, waitTime, nreq, ret>>
traceVars == <<outcomes, sleeps>>
runVars == <<ratings, comments, run, allDaily>>
vars == <<mainVars, callVars, traceVars, runVars>>

\* ------------------------------ helpers ----------------------------------
Min(a, b) == IF a <= b THEN a ELSE b

RECURSIVE TrimStart(_)
TrimStart(s) == IF s # <<>> /\ Head(s) = " " THEN TrimStart(Tail(s)) ELSE s

RECURSIVE TrimEnd(_)
TrimEnd(s) ==
    IF s # <<>> /\ s[Len(s)] = " " THEN TrimEnd(SubSeq(s, 1, Len(s) - 1)) ELSE s

Trim(s) == TrimEnd(TrimStart(s))

EmptyMap == [n \in {} |-> <<>>]
Put(m, k, v) == [n \in (DOMAIN m) \cup {k} |-> IF n = k THEN v ELSE m[n]]

\* results[name] && results[name] !== "AI summary unavailable."
HasGoodSummary(m, name) ==
    /\ name \in DOMAIN m
    /\ m[name] # <<>>
    /\ m[name] # FALLBACK

Prof(k, ne, cm) ==
    [name |-> AllNames[k], numEvals |-> ne, comments |-> cm, link |-> AllLinks[k]]
NoProf == [name |-> "", numEvals |-> 0, comments |-> <<>>, link |-> ""]


Stores == UNION {[S -> StoredValues] : S \in SUBSET Names}

\* ---------------------- convertCSVToProfessorData -------------------------
\* A row's name is a sequence of parts (blanks and one name), its text a
\* sequence of characters; a missing or empty field is <<>>.
RatingsRow(nm, ev, id) == [fullName |-> nm, numEvals |-> ev, id |-> id]
CommentsRow(nm, txt, pid) ==
    [professor_name |-> nm, rating_text |-> txt, professor_id |-> pid]

\* parseInt(row.numEvals): <<>> stands for NaN
ParseInt(raw) ==
    CASE raw = "0" -> <<0>>
      [] raw = "3" -> <<3>>
      [] raw = "7" -> <<7>>
      [] OTHER -> <<>>
\* parseInt(...) || 0
OrZero(x) == IF x = <<>> THEN 0 ELSE x[1]

NameIndex(name) == CHOOSE k \in 1..Len(AllNames) : AllNames[k] = name
SlugLink(name) == AllSlugLinks[NameIndex(name)]

\* professorMap: the entries in insertion order
MapHas(m, name) == \E k \in 1..Len(m) : m[k].name = name
MapIndex(m, name) == CHOOSE k \in 1..Len(m) : m[k].name = name
\* Map.prototype.set: a known key keeps its place, a new key goes last
MapSet(m, e) ==
    IF MapHas(m, e.name) THEN [m EXCEPT ![MapIndex(m, e.name)] = e] ELSE Append(m, e)

RatingsEntry_keepFirst(m, row) ==
    LET profName == Trim(row.fullName)
    IN IF profName = <<>> \/ MapHas(m, profName[1])
       THEN m
       ELSE MapSet(m, [name |-> profName[1],
                       numEvals |-> OrZero(ParseInt(row.numEvals)),
                       link |-> AllLinks[row.id],
                       allComments |-> <<>>])
\* ratingsData.forEach((row) => { ... professorMap.set(profName, {...}) })
RatingsEntry(m, row) ==
    LET profName == Trim(row.fullName)
    IN IF profName = <<>>
       THEN m
       ELSE MapSet(m, [name |-> profName[1],
                       numEvals |-> OrZero(ParseInt(row.numEvals)),
                       link |-> AllLinks[row.id],
                       allComments |-> <<>>])

NewCommentsRecord_counted(row, name) ==
    [name |-> name,
     numEvals |-> 1,
     link |-> IF row.professor_id # <<>>
              THEN AllLinks[row.professor_id[1]] ELSE SlugLink(name),
     allComments |-> <<>>]
\* if (!professorMap.has(profName)) professorMap.set(profName, { numEvals: 0, ... })
NewCommentsRecord(row, name) ==
    [name |-> name,
     numEvals |-> 0,
     link |-> IF row.professor_id # <<>>
              THEN AllLinks[row.professor_id[1]] ELSE SlugLink(name),
     allComments |-> <<>>]

\* commentsData.forEach((row) => { ... prof.allComments.push(comment.trim()) })
CommentsEntry(m, row) ==
    LET profName == Trim(row.professor_name)
    IN IF profName = <<>>
       THEN m
       ELSE LET m1 == IF MapHas(m, profName[1])
                      THEN m ELSE MapSet(m, NewCommentsRecord(row, profName[1]))
                k == MapIndex(m1, profName[1])
                comment == Trim(row.rating_text)
            IN IF comment # <<>>
               THEN [m1 EXCEPT ![k].allComments = Append(@, comment)]
               ELSE m1

RECURSIVE ForEachRatings(_, _)
ForEachRatings(m, rows) ==
    IF rows = <<>> THEN m ELSE ForEachRatings(RatingsEntry(m, Head(rows)), Tail(rows))

RECURSIVE ForEachComments(_, _)
ForEachComments(m, rows) ==
    IF rows = <<>> THEN m ELSE ForEachComments(CommentsEntry(m, Head(rows)), Tail(rows))

Separator == <<" ", "|", " ">>

\* prof.allComments.join(" | ")
RECURSIVE Join(_)
Join(list) ==
    IF list = <<>> THEN <<>>
    ELSE IF Len(list) = 1 THEN list[1]
    ELSE list[1] \o Separator \o Join(Tail(list))

\* str.substring(from, to), 0-based, to exclusive
Substring(str, from, to) == SubSeq(str, from + 1, Min(to, Len(str)))

\* str.lastIndexOf(sep, fromIndex): the last 0-based start <= fromIndex, or -1
LastIndexOf(str, sep, fromIndex) ==
    LET starts == {q \in 0..Min(fromIndex, Len(str) - Len(sep)) :
                      SubSeq(str, q + 1, q + Len(sep)) = sep}
    IN IF starts = {} THEN -1
       ELSE CHOOSE q \in starts : \A r \in starts : r <= q

BoundComments_hardCut(joined) ==
    IF Len(joined) > cutoff THEN Substring(joined, 0, cutoff) ELSE joined
\* lines 102-109: cut at the last separator at or before the limit
BoundComments(joined) ==
    IF Len(joined) > cutoff
    THEN LET lastPipe == LastIndexOf(joined, Separator, cutoff)
         IN IF lastPipe > 0
            THEN Substring(joined, 0, lastPipe)
            ELSE Substring(joined, 0, cutoff)
    ELSE joined

\* Array.from(professorMap.values()).map(...)
Finalize(m) ==
    [k \in 1..Len(m) |->
        [name |-> m[k].name, numEvals |-> m[k].numEvals, link |-> m[k].link,
         comments |-> BoundComments(Join(m[k].allComments))]]

professorMap(ratingsData, commentsData) ==
    ForEachComments(ForEachRatings(<<>>, ratingsData), commentsData)

convertCSVToProfessorData(ratingsData, commentsData) ==
    Finalize(professorMap(ratingsData, commentsData))

\* CSV contents served to a run: the first L names, each with one comment
\* row, those with ev[k] = 3 also with a ratings row
RECURSIVE RatedRows(_, _)
RatedRows(ev, k) ==
    IF k = 0 THEN <<>>
    ELSE IF ev[k] = 3
         THEN Append(RatedRows(ev, k - 1), RatingsRow(<<AllNames[k]>>, "3", k))
         ELSE RatedRows(ev, k - 1)

RunInputs ==
    UNION {{[ratings |-> RatedRows(ev, L),
             comments |-> [k \in 1..L |-> CommentsRow(<<AllNames[k]>>, <<"a">>, <<k>>)]]
            : ev \in [1..L -> {0, 3}]}
           : L \in 0..MaxProfs}

\* professor lists of a run: distinct names, a record with ratings
\* (numEvals > 0) or one known from comments only (numEvals = 0)
ProfessorLists ==
    {convertCSVToProfessorData(in.ratings, in.comments) : in \in RunInputs}

\* ------------------------------ state files ------------------------------
loadState_skipsOne == IF stateFile = <<>> THEN 0 ELSE stateFile[1] + 1
loadState == IF stateFile = <<>> THEN 0 ELSE stateFile[1]

loadExistingSummaries_fresh == EmptyMap
loadExistingSummaries == IF outputFile = <<>> THEN EmptyMap ELSE outputFile[1]

\* ------------------------------ callAISummary ----------------------------
InsufficientData_evalsOnly(p) == p.numEvals = 0
InsufficientData(p) ==
    \/ p.numEvals = 0
    \/ p.comments = <<>>
    \/ Len(Trim(p.comments)) = 0

InsufficientMessage(p) ==
    <<"Professor ", p.name, " has limited reviews available. More student feedback is needed to generate a comprehensive summary.\n\n", p.link>>

RateLimitWait_linear(a) == 3000 * a
RateLimitWait(a) == (2 ^ a) * 3000

LinearWait(a) == 2000 * a

LoopContinues_offByOne(a) == a <= retries + 1
LoopContinues(a) == a <= retries

Entry ==
    /\ cpc = "entry"
    /\ IF InsufficientData(prof)
       THEN /\ ret' = InsufficientMessage(prof)
            /\ cpc' = "returned"
            /\ UNCHANGED attempt
       ELSE /\ attempt' = 1
            /\ cpc' = IF LoopContinues(1) THEN "request" ELSE "returned"
            /\ ret' = IF LoopContinues(1) THEN ret ELSE FALLBACK
    /\ UNCHANGED <<prof, waitTime, nreq, mainVars, runVars>>

\* !resp.ok with status 429
RespRateLimit ==
    /\ cpc = "request"
    /\ nreq' = nreq + 1
    /\ waitTime' = RateLimitWait(attempt)
    /\ cpc' = "sleep"
    /\ UNCHANGED <<prof, attempt, ret, mainVars, runVars>>

\* !resp.ok with any other status
RespError_noRetry ==
    /\ cpc = "request"
    /\ nreq' = nreq + 1
    /\ ret' = FALLBACK
    /\ cpc' = "returned"
    /\ UNCHANGED <<prof, attempt, waitTime, mainVars, runVars>>
RespError ==
    /\ cpc = "request"
    /\ nreq' = nreq + 1
    /\ IF attempt < retries
       THEN /\ waitTime' = LinearWait(attempt)
            /\ cpc' = "sleep"
            /\ UNCHANGED ret
       ELSE /\ ret' = FALLBACK
            /\ cpc' = "returned"
            /\ UNCHANGED waitTime
    /\ UNCHANGED <<prof, attempt, mainVars, runVars>>

\* resp.ok, body parsed, no text at choices[0].message.content
RespNoText ==
    /\ cpc = "request"
    /\ nreq' = nreq + 1
    /\ ret' = FALLBACK
    /\ cpc' = "returned"
    /\ UNCHANGED <<prof, attempt, waitTime, mainVars, runVars>>

\* resp.ok with text
RespText ==
    /\ cpc = "request"
    /\ nreq' = nreq + 1
    /\ ret' = GeneratedText
    /\ cpc' = "returned"
    /\ UNCHANGED <<prof, attempt, waitTime, mainVars, runVars>>

\* fetch, resp.text() or resp.json() throws: the catch block
CatchError_uncaught ==
    /\ cpc = "request"
    /\ nreq' = nreq + 1
    /\ pc' = "exited"
    /\ exitCode' = <<1>>
    /\ cpc' = "thrown"
    /\ UNCHANGED <<prof, attempt, waitTime, ret>>
    /\ UNCHANGED <<WEEKLY_MODE, DAILY_BATCH_SIZE, fetched, fetchCount,
                   professors, outputFile, stateFile, results, startIndex,
                   endIndex, batch, i, processed, skipped, outputWrites,
                   stateWrites, outputFile0, stateFile0, calls, summaries,
                   visited, delays, runVars>>
CatchError ==
    /\ cpc = "request"
    /\ nreq' = nreq + 1
    /\ IF attempt < retries
       THEN /\ waitTime' = LinearWait(attempt)
            /\ cpc' = "sleep"
            /\ UNCHANGED ret
       ELSE /\ ret' = FALLBACK
            /\ cpc' = "returned"
            /\ UNCHANGED waitTime
    /\ UNCHANGED <<prof, attempt, mainVars, runVars>>

\* await sleep(...); continue  -> attempt++, loop test, return after the loop
Sleep ==
    /\ cpc = "sleep"
    /\ attempt' = attempt + 1
    /\ IF LoopContinues(attempt + 1)
       THEN /\ cpc' = "request"
            /\ UNCHANGED ret
       ELSE /\ cpc' = "returned"
            /\ ret' = FALLBACK
    /\ UNCHANGED <<prof, waitTime, nreq, mainVars, runVars>>

\* ------------------------------ main -------------------------------------
\* const [ratings, comments] = await Promise.all([fetchCSV(..), fetchCSV(..)])
Start ==
    /\ pc = "start"
    /\ fetched' = [u \in Urls |-> "pending"]
    /\ fetchCount' = [u \in Urls |-> fetchCount[u] + 1]
    /\ pc' = "fetch"
    /\ UNCHANGED <<exitCode, WEEKLY_MODE, DAILY_BATCH_SIZE, professors,
                   outputFile, stateFile, results, startIndex, endIndex, batch,
                   i, processed, skipped, outputWrites, stateWrites,
                   outputFile0, stateFile0, calls, summaries, visited, delays>>
    /\ UNCHANGED <<callVars, traceVars, runVars>>

FetchOk(u) ==
    /\ pc = "fetch"
    /\ fetched[u] = "pending"
    /\ fetched' = [fetched EXCEPT ![u] = "ok"]
    /\ UNCHANGED <<pc, exitCode, WEEKLY_MODE, DAILY_BATCH_SIZE, fetchCount,
                   professors, outputFile, stateFile, results, startIndex,
                   endIndex, batch, i, processed, skipped, outputWrites,
                   stateWrites, outputFile0, stateFile0, calls, summaries,
                   visited, delays>>
    /\ UNCHANGED <<callVars, traceVars, runVars>>

\* fetch rejects or !res.ok: fetchCSV throws, Promise.all rejects, main().catch exits
FetchFail_swallowed(u) ==
    /\ pc = "fetch"
    /\ fetched[u] = "pending"
    /\ fetched' = [fetched EXCEPT ![u] = "failed"]
    /\ UNCHANGED <<pc, exitCode, WEEKLY_MODE, DAILY_BATCH_SIZE, fetchCount,
                   professors, outputFile, stateFile, results, startIndex,
                   endIndex, batch, i, processed, skipped, outputWrites,
                   stateWrites, outputFile0, stateFile0, calls, summaries,
                   visited, delays>>
    /\ UNCHANGED <<callVars, traceVars, runVars>>
FetchFail(u) ==
    /\ pc = "fetch"
    /\ fetched[u] = "pending"
    /\ fetched' = [fetched EXCEPT ![u] = "failed"]
    /\ pc' = "exited"
    /\ exitCode' = <<1>>
    /\ UNCHANGED <<WEEKLY_MODE, DAILY_BATCH_SIZE, fetchCount,
                   professors, outputFile, stateFile, results, startIndex,
                   endIndex, batch, i, processed, skipped, outputWrites,
                   stateWrites, outputFile0, stateFile0, calls, summaries,
                   visited, delays>>
    /\ UNCHANGED <<callVars, traceVars, runVars>>

\* the CSV documents served to a later run are those of the first run
SameCsv(in) == run = 1 \/ (in.ratings = ratings /\ in.comments = comments)

AllFetched_any == \E u \in Urls : fetched[u] = "ok"
\* await Promise.all([...]) resumes main() once both fetches are fulfilled
AllFetched == \A u \in Urls : fetched[u] = "ok"

\* if (WEEKLY_MODE) { ... saveState({ lastIndex: 0 }) }
SetupWeekly_noReset(in) ==
    /\ pc = "fetch"
    /\ AllFetched
    /\ SameCsv(in)
    /\ WEEKLY_MODE
    /\ ratings' = in.ratings
    /\ comments' = in.comments
    /\ LET ps == convertCSVToProfessorData(in.ratings, in.comments)
       IN /\ professors' = ps
          /\ batch' = ps
          /\ endIndex' = Len(ps)
    /\ results' = loadExistingSummaries
    /\ startIndex' = 0
    /\ i' = 0
    /\ pc' = "loop"
    /\ UNCHANGED <<exitCode, WEEKLY_MODE, DAILY_BATCH_SIZE, fetched, fetchCount,
                   outputFile, stateFile, stateWrites, processed, skipped,
                   outputWrites, outputFile0, stateFile0, calls, summaries,
                   visited, delays>>
    /\ UNCHANGED <<callVars, traceVars, run, allDaily>>
SetupWeekly(in) ==
    /\ pc = "fetch"
    /\ AllFetched
    /\ SameCsv(in)
    /\ WEEKLY_MODE
    /\ ratings' = in.ratings
    /\ comments' = in.comments
    /\ LET ps == convertCSVToProfessorData(in.ratings, in.comments)
       IN /\ professors' = ps
          /\ batch' = ps
          /\ endIndex' = Len(ps)
    /\ results' = loadExistingSummaries
    /\ startIndex' = 0
    /\ stateFile' = <<0>>
    /\ stateWrites' = stateWrites + 1
    /\ i' = 0
    /\ pc' = "loop"
    /\ UNCHANGED <<exitCode, WEEKLY_MODE, DAILY_BATCH_SIZE, fetched, fetchCount,
                   outputFile, processed, skipped, outputWrites, outputFile0,
                   stateFile0, calls, summaries, visited, delays>>
    /\ UNCHANGED <<callVars, traceVars, run, allDaily>>

\* else { const state = loadState(); startIndex = state.lastIndex || 0; ... }
SetupDaily(in) ==
    /\ pc = "fetch"
    /\ AllFetched
    /\ SameCsv(in)
    /\ ~WEEKLY_MODE
    /\ ratings' = in.ratings
    /\ comments' = in.comments
    /\ LET ps == convertCSVToProfessorData(in.ratings, in.comments)
           s == loadState
           e == Min(s + DAILY_BATCH_SIZE, Len(ps))
       IN /\ professors' = ps
           /\ startIndex' = s
           /\ endIndex' = e
           /\ batch' = SubSeq(ps, s + 1, e)
    /\ results' = loadExistingSummaries
    /\ i' = 0
    /\ pc' = "loop"
    /\ UNCHANGED <<exitCode, WEEKLY_MODE, DAILY_BATCH_SIZE, fetched, fetchCount,
                   outputFile, stateFile, stateWrites, processed, skipped,
                   outputWrites, outputFile0, stateFile0, calls, summaries,
                   visited, delays>>
    /\ UNCHANGED <<callVars, traceVars, run, allDaily>>

\* !WEEKLY_MODE && results[prof.name] && results[prof.name] !== "AI summary unavailable."
ShouldSkip_anyEntry(weekly, res, name) == ~weekly /\ name \in DOMAIN res
ShouldSkip_never(weekly, res, name) == FALSE
ShouldSkip(weekly, res, name) == ~weekly /\ HasGoodSummary(res, name)

SkipProf ==
    /\ pc = "loop"
    /\ i < Len(batch)
    /\ ShouldSkip(WEEKLY_MODE, results, batch[i + 1].name)
    /\ skipped' = skipped + 1
    /\ visited' = Append(visited, batch[i + 1].name)
    /\ i' = i + 1
    /\ UNCHANGED <<pc, exitCode, WEEKLY_MODE, DAILY_BATCH_SIZE, fetched,
                   fetchCount, professors, outputFile, stateFile, results,
                   startIndex, endIndex, batch, processed, outputWrites,
                   stateWrites, outputFile0, stateFile0, calls, summaries,
                   delays>>
    /\ UNCHANGED <<callVars, traceVars, runVars>>

\* const summary = await callAISummary(prof)
CallSummary ==
    /\ pc = "loop"
    /\ i < Len(batch)
    /\ ~ShouldSkip(WEEKLY_MODE, results, batch[i + 1].name)
    /\ visited' = Append(visited, batch[i + 1].name)
    /\ calls' = [calls EXCEPT ![batch[i + 1].name] = @ + 1]
    /\ prof' = batch[i + 1]
    /\ cpc' = "entry"
    /\ pc' = "call"
    /\ UNCHANGED <<attempt, waitTime, nreq, ret>>
    /\ UNCHANGED <<exitCode, WEEKLY_MODE, DAILY_BATCH_SIZE, fetched,
                   fetchCount, professors, outputFile, stateFile, results,
                   startIndex, endIndex, batch, i, processed, skipped,
                   outputWrites, stateWrites, outputFile0, stateFile0,
                   summaries, delays>>
    /\ UNCHANGED <<traceVars, runVars>>

\* WEEKLY_MODE && summary === "AI summary unavailable." && results[prof.name] && ...
KeepExisting_never(weekly, summary, res, name) == FALSE
KeepExisting(weekly, summary, res, name) ==
    weekly /\ summary = FALLBACK /\ HasGoodSummary(res, name)

\* the rest of the loop body once callAISummary has returned
StoreSummary ==
    /\ pc = "call"
    /\ cpc = "returned"
    /\ summaries' = [summaries EXCEPT ![prof.name] = ret]
    /\ IF KeepExisting(WEEKLY_MODE, ret, results, prof.name)
       THEN /\ skipped' = skipped + 1
            /\ UNCHANGED <<results, processed>>
       ELSE /\ results' = Put(results, prof.name, ret)
            /\ processed' = processed + 1
            /\ UNCHANGED skipped
    /\ IF i < Len(batch) - 1
       THEN /\ pc' = "delay"
            /\ UNCHANGED i
       ELSE /\ pc' = "loop"
            /\ i' = i + 1
    /\ prof' = NoProf
    /\ attempt' = 0
    /\ cpc' = "idle"
    /\ waitTime' = 0
    /\ nreq' = 0
    /\ ret' = <<>>
    /\ UNCHANGED <<exitCode, WEEKLY_MODE, DAILY_BATCH_SIZE, fetched,
                   fetchCount, professors, outputFile, stateFile, startIndex,
                   endIndex, batch, outputWrites, stateWrites, outputFile0,
                   stateFile0, calls, visited, delays>>
    /\ UNCHANGED <<traceVars, runVars>>

\* await sleep(REQUEST_DELAY_MS); i++
Delay ==
    /\ pc = "delay"
    /\ delays' = Append(delays, REQUEST_DELAY_MS)
    /\ i' = i + 1
    /\ pc' = "loop"
    /\ UNCHANGED <<exitCode, WEEKLY_MODE, DAILY_BATCH_SIZE, fetched,
                   fetchCount, professors, outputFile, stateFile, results,
                   startIndex, endIndex, batch, processed, skipped,
                   outputWrites, stateWrites, outputFile0, stateFile0, calls,
                   summaries, visited>>
    /\ UNCHANGED <<callVars, traceVars, runVars>>

SaveResults_cursorFirst ==
    /\ pc = "loop"
    /\ i >= Len(batch)
    /\ stateFile' = <<IF endIndex >= Len(professors) THEN 0 ELSE endIndex>>
    /\ stateWrites' = stateWrites + 1
    /\ pc' = "saveState"
    /\ UNCHANGED <<exitCode, WEEKLY_MODE, DAILY_BATCH_SIZE, fetched,
                   fetchCount, professors, outputFile, results, startIndex,
                   endIndex, batch, i, processed, skipped, outputWrites,
                   outputFile0, stateFile0, calls, summaries, visited, delays>>
    /\ UNCHANGED <<callVars, traceVars, runVars>>
\* fs.writeFileSync(OUTPUT_FILE, JSON.stringify(results, null, 2))
SaveResults ==
    /\ pc = "loop"
    /\ i >= Len(batch)
    /\ outputFile' = <<results>>
    /\ outputWrites' = outputWrites + 1
    /\ pc' = "saveState"
    /\ UNCHANGED <<exitCode, WEEKLY_MODE, DAILY_BATCH_SIZE, fetched,
                   fetchCount, professors, stateFile, results, startIndex,
                   endIndex, batch, i, processed, skipped, stateWrites,
                   outputFile0, stateFile0, calls, summaries, visited, delays>>
    /\ UNCHANGED <<callVars, traceVars, runVars>>

\* const nextIndex = endIndex >= professors.length ? 0 : endIndex
NextIndex_noWrap(e, len) == IF e > len THEN 0 ELSE e
NextIndex(e, len) == IF e >= len THEN 0 ELSE e

\* saveState({ lastIndex: 0 }) or saveState({ lastIndex: nextIndex })
SaveFinalState ==
    /\ pc = "saveState"
    /\ stateFile' = IF WEEKLY_MODE
                    THEN <<0>>
                    ELSE <<NextIndex(endIndex, Len(professors))>>
    /\ stateWrites' = stateWrites + 1
    /\ pc' = "done"
    /\ exitCode' = <<0>>
    /\ UNCHANGED <<WEEKLY_MODE, DAILY_BATCH_SIZE, fetched, fetchCount,
                   professors, outputFile, results, startIndex, endIndex,
                   batch, i, processed, skipped, outputWrites, outputFile0,
                   stateFile0, calls, summaries, visited, delays>>
    /\ UNCHANGED <<callVars, traceVars, runVars>>

\* ------------------------------ specifications ---------------------------
CallIdle ==
    /\ prof = NoProf
    /\ attempt = 0
    /\ cpc = "idle"
    /\ waitTime = 0
    /\ nreq = 0
    /\ ret = <<>>

MainFresh ==
    /\ exitCode = <<>>
    /\ fetched = [u \in Urls |-> "idle"]
    /\ fetchCount = [u \in Urls |-> 0]
    /\ professors = <<>>
    /\ results = EmptyMap
    /\ startIndex = 0
    /\ endIndex = 0
    /\ batch = <<>>
    /\ i = 0
    /\ processed = 0
    /\ skipped = 0
    /\ outputWrites = 0
    /\ stateWrites = 0
    /\ outputFile0 = outputFile
    /\ stateFile0 = stateFile
    /\ calls = [n \in Names |-> 0]
    /\ summaries = [n \in Names |-> <<>>]
    /\ visited = <<>>
    /\ delays = <<>>
    /\ outcomes = <<>>
    /\ sleeps = <<>>
    /\ run = 1
    /\ allDaily = ~WEEKLY_MODE

Init ==
    /\ pc = "start"
    /\ WEEKLY_MODE \in BOOLEAN
    /\ DAILY_BATCH_SIZE \in 1..MaxBatch
    /\ outputFile \in {<<>>} \cup {<<m>> : m \in Stores}
    /\ stateFile \in {<<>>} \cup {<<c>> : c \in 0..MaxCursor}
    /\ MainFresh
    /\ ratings = <<>>
    /\ comments = <<>>
    /\ CallIdle

Next ==
    \/ Start
    \/ \E u \in Urls : FetchOk(u)
    \/ \E u \in Urls : FetchFail(u)
    \/ \E in \in RunInputs : SetupWeekly(in)
    \/ \E in \in RunInputs : SetupDaily(in)
    \/ SkipProf
    \/ CallSummary
    \/ Entry /\ UNCHANGED traceVars
    \/ RespRateLimit /\ UNCHANGED traceVars
    \/ RespError /\ UNCHANGED traceVars
    \/ RespNoText /\ UNCHANGED traceVars
    \/ RespText /\ UNCHANGED traceVars
    \/ CatchError /\ UNCHANGED traceVars
    \/ Sleep /\ UNCHANGED traceVars
    \/ StoreSummary
    \/ Delay
    \/ SaveResults
    \/ SaveFinalState

Spec == Init /\ [][Next]_vars

\* one callAISummary(prof) call on its own, every request outcome observed
Chars == {" ", "a"}
Comments == UNION {[1..n -> Chars] : n \in 0..MaxCommentLen}
ProfInputs == {Prof(1, ne, cm) : ne \in {0, 3}, cm \in Comments}

InitCall ==
    /\ pc = "call"
    /\ WEEKLY_MODE = FALSE
    /\ DAILY_BATCH_SIZE = 1
    /\ outputFile = <<>>
    /\ stateFile = <<>>
    /\ MainFresh
    /\ ratings = <<>>
    /\ comments = <<>>
    /\ prof \in ProfInputs
    /\ cpc = "entry"
    /\ attempt = 0
    /\ waitTime = 0
    /\ nreq = 0
    /\ ret = <<>>

NextCall ==
    \/ Entry /\ UNCHANGED traceVars
    \/ RespRateLimit /\ outcomes' = Append(outcomes, "429") /\ UNCHANGED sleeps
    \/ RespError /\ outcomes' = Append(outcomes, "error") /\ UNCHANGED sleeps
    \/ RespNoText /\ outcomes' = Append(outcomes, "notext") /\ UNCHANGED sleeps
    \/ RespText /\ outcomes' = Append(outcomes, "text") /\ UNCHANGED sleeps
    \/ CatchError /\ outcomes' = Append(outcomes, "throw") /\ UNCHANGED sleeps
    \/ Sleep /\ sleeps' = Append(sleeps, waitTime) /\ UNCHANGED outcomes

SpecCall == InitCall /\ [][NextCall]_vars

\* ------------------------------ aborted run ------------------------------
\* the process is killed at any point of main(); the files stay as they are
Abort ==
    /\ pc \notin {"done", "exited", "killed"}
    /\ pc' = "killed"
    /\ exitCode' = <<137>>
    /\ prof' = NoProf
    /\ attempt' = 0
    /\ cpc' = "idle"
    /\ waitTime' = 0
    /\ nreq' = 0
    /\ ret' = <<>>
    /\ UNCHANGED <<WEEKLY_MODE, DAILY_BATCH_SIZE, fetched, fetchCount,
                   professors, outputFile, stateFile, results, startIndex,
                   endIndex, batch, i, processed, skipped, outputWrites,
                   stateWrites, outputFile0, stateFile0, calls, summaries,
                   visited, delays>>
    /\ UNCHANGED <<traceVars, runVars>>

NextAbort == Next \/ Abort

SpecAbort == Init /\ [][NextAbort]_vars

\* ------------------------- runs one after another ------------------------
MaxRuns == MaxProfs + 1

\* the script is started again after a completed run: the files are as the
\* last run left them, the mode is chosen anew
NewRun ==
    /\ pc = "done"
    /\ run < MaxRuns
    /\ pc' = "start"
    /\ exitCode' = <<>>
    /\ WEEKLY_MODE' \in BOOLEAN
    /\ fetched' = [u \in Urls |-> "idle"]
    /\ fetchCount' = [u \in Urls |-> 0]
    /\ professors' = <<>>
    /\ results' = EmptyMap
    /\ startIndex' = 0
    /\ endIndex' = 0
    /\ batch' = <<>>
    /\ i' = 0
    /\ processed' = 0
    /\ skipped' = 0
    /\ outputWrites' = 0
    /\ stateWrites' = 0
    /\ outputFile0' = outputFile
    /\ stateFile0' = stateFile
    /\ calls' = [n \in Names |-> 0]
    /\ summaries' = [n \in Names |-> <<>>]
    /\ visited' = <<>>
    /\ delays' = <<>>
    /\ run' = run + 1
    /\ allDaily' = (allDaily /\ ~WEEKLY_MODE')
    /\ UNCHANGED <<DAILY_BATCH_SIZE, outputFile, stateFile, ratings, comments>>
    /\ UNCHANGED <<callVars, traceVars>>

\* the first run finds any result store and no cursor or the cursor 0
InitRuns ==
    /\ pc = "start"
    /\ WEEKLY_MODE \in BOOLEAN
    /\ DAILY_BATCH_SIZE \in 1..MaxBatch
    /\ outputFile \in {<<>>} \cup {<<m>> : m \in Stores}
    /\ stateFile \in {<<>>, <<0>>}
    /\ MainFresh
    /\ ratings = <<>>
    /\ comments = <<>>
    /\ CallIdle

NextRuns == Next \/ NewRun

SpecRuns == InitRuns /\ [][NextRuns]_vars

\* ---------------- one call of convertCSVToProfessorData ------------------
RECURSIVE SeqsUpTo(_, _)
SeqsUpTo(S, n) ==
    IF n = 0 THEN {<<>>}
    ELSE LET shorter == SeqsUpTo(S, n - 1)
         IN shorter \cup {Append(q, x) : q \in {r \in shorter : Len(r) = n - 1}, x \in S}

\* ratings rows: a name repeated with other fields and with blanks around it,
\* a count that is not a number, a blank name
RatingsRows ==
    {RatingsRow(<<"Ann Lee">>, "3", 1),
     RatingsRow(<<" ", "Ann Lee", " ">>, "7", 2),
     RatingsRow(<<"Bo Diaz">>, "abc", 2),
     RatingsRow(<<"Bo Diaz">>, "3", 3),
     RatingsRow(<<" ">>, "3", 4)}

\* comments rows: for a rated name, for a new name with and without an id,
\* with an empty text, with a missing name
CommentsRows ==
    {CommentsRow(<<"Ann Lee">>, <<"a">>, <<3>>),
     CommentsRow(<<"Bo Diaz", " ">>, <<" ", "b", " ">>, <<>>),
     CommentsRow(<<"Cy Ng">>, <<>>, <<4>>),
     CommentsRow(<<" ", "Cy Ng">>, <<"c">>, <<>>),
     CommentsRow(<<>>, <<"a">>, <<1>>)}

RECURSIVE As(_)
As(n) == IF n = 0 THEN <<>> ELSE <<"a">> \o As(n - 1)

\* comment texts: short ones with and without the separator's bar, one as
\* long as the limit, one longer, one that holds the separator itself
Texts ==
    {<<"a">>, <<"|">>, <<"a", "a">>, <<"a", "|">>, <<"|", "a">>, <<"|", "|">>,
     As(cutoff), As(cutoff + 1), <<"a">> \o Separator \o <<"a">>}

\* the comment rows of one professor, MaxRows + 1 at most
TextRows == SeqsUpTo({CommentsRow(<<"Ann Lee">>, t, <<1>>) : t \in Texts}, MaxRows + 1)

ConvertInputs ==
    {[ratings |-> r, comments |-> c] :
        r \in SeqsUpTo(RatingsRows, MaxRows), c \in SeqsUpTo(CommentsRows, MaxRows)}
    \cup {[ratings |-> <<>>, comments |-> c] : c \in TextRows}

InitConvert ==
    /\ pc = "convert"
    /\ WEEKLY_MODE = FALSE
    /\ DAILY_BATCH_SIZE = 1
    /\ outputFile = <<>>
    /\ stateFile = <<>>
    /\ MainFresh
    /\ \E in \in ConvertInputs : ratings = in.ratings /\ comments = in.comments
    /\ CallIdle

Convert ==
    /\ pc = "convert"
    /\ professors' = convertCSVToProfessorData(ratings, comments)
    /\ pc' = "converted"
    /\ UNCHANGED <<exitCode, WEEKLY_MODE, DAILY_BATCH_SIZE, fetched, fetchCount,
                   outputFile, stateFile, results, startIndex, endIndex, batch, i,
                   processed, skipped, outputWrites, stateWrites, outputFile0,
                   stateFile0, calls, summaries, visited, delays>>
    /\ UNCHANGED <<callVars, traceVars, runVars>>

NextConvert == Convert

SpecConvert == InitConvert /\ [][NextConvert]_vars

\* ------------------------------ properties -------------------------------
Cursor0 == IF stateFile0 = <<>> THEN 0 ELSE stateFile0[1]
Store0 == IF outputFile0 = <<>> THEN EmptyMap ELSE outputFile0[1]
ListLen == Len(professors)
RangeEnd == Min(Cursor0 + DAILY_BATCH_SIZE, ListLen)
\* names of the selected range, in list order
RangeNames ==
    IF WEEKLY_MODE
    THEN [k \in 1..ListLen |-> professors[k].name]
    ELSE [k \in 1..(IF RangeEnd > Cursor0 THEN RangeEnd - Cursor0 ELSE 0)
            |-> professors[Cursor0 + k].name]
Stored(n) == IF outputFile # <<>> /\ n \in DOMAIN outputFile[1]
             THEN outputFile[1][n] ELSE <<>>
LastOutcome == outcomes[Len(outcomes)]
\* the last request has just been answered (no sleep completed since)
JustAnswered ==
    /\ outcomes # <<>>
    /\ cpc \in {"sleep", "returned"}
    /\ Len(sleeps) = Len(outcomes) - 1
Blank(cm) == \A k \in 1..Len(cm) : cm[k] = " "

\* C1: in daily mode a completed run leaves the persisted cursor at 0 when
\* c + B >= L and at c + B otherwise, c being the cursor persisted before the run.
C1_CursorWraparound ==
    (pc = "done" /\ ~WEEKLY_MODE) =>
        stateFile = <<IF Cursor0 + DAILY_BATCH_SIZE >= ListLen
                      THEN 0 ELSE Cursor0 + DAILY_BATCH_SIZE>>

C1_Witness ==
    /\ pc = "done"
    /\ ~WEEKLY_MODE
    /\ Cursor0 + DAILY_BATCH_SIZE < ListLen
    /\ stateFile0 = <<0>>
    /\ stateFile = <<DAILY_BATCH_SIZE>>

\* C2: in weekly mode a name whose pre-run value is a non-fallback summary and
\* whose call in this run returned the fallback sentinel keeps its pre-run value.
C2_RegressionGuard ==
    (pc = "done" /\ WEEKLY_MODE) =>
        \A n \in Names :
            (HasGoodSummary(Store0, n) /\ calls[n] > 0 /\ summaries[n] = FALLBACK)
                => Stored(n) = Store0[n]

C2_Witness ==
    /\ pc = "done"
    /\ WEEKLY_MODE
    /\ \E n \in Names :
        /\ HasGoodSummary(Store0, n)
        /\ calls[n] = 1
        /\ summaries[n] = FALLBACK
        /\ Stored(n) = OldSummary

\* C3: in daily mode a record of the selected range with a non-fallback stored
\* value is never handed to callAISummary; every other record of the range is
\* handed to it exactly once and the value it returned is stored under its name.
C3_SkipOrCallOnce ==
    ~WEEKLY_MODE =>
        /\ \A n \in Names : calls[n] <= IF HasGoodSummary(Store0, n) THEN 0 ELSE 1
        /\ pc = "done" =>
            \A k \in 1..Len(RangeNames) :
                LET n == RangeNames[k]
                IN IF HasGoodSummary(Store0, n)
                   THEN calls[n] = 0 /\ summaries[n] = <<>>
                   ELSE /\ calls[n] = 1
                        /\ summaries[n] # <<>>
                        /\ Stored(n) = summaries[n]

C3_Witness ==
    /\ pc = "done"
    /\ ~WEEKLY_MODE
    /\ Len(RangeNames) = 2
    /\ HasGoodSummary(Store0, RangeNames[1])
    /\ calls[RangeNames[1]] = 0
    /\ RangeNames[2] \in DOMAIN Store0
    /\ Store0[RangeNames[2]] = FALLBACK
    /\ calls[RangeNames[2]] = 1
    /\ Stored(RangeNames[2]) = FALLBACK

\* C4: whatever the API answers, attempt by attempt, the run is never aborted
\* after the CSV fetch: it always has a next step until it is done, it reaches
\* every record of the selected range in order, writes the result store and
\* the cursor, and ends with exit code 0.
C4_FailuresNeverAbort ==
    /\ pc = "exited" => \E u \in Urls : fetched[u] = "failed"
    /\ pc \notin {"done", "exited"} => ENABLED Next
    /\ pc \in {"saveState", "done"} => visited = RangeNames /\ outputWrites = 1
    /\ pc = "done" => /\ exitCode = <<0>>
                      /\ stateWrites >= 1
                      /\ stateFile # <<>>
                      /\ outputFile = <<results>>

C4_Witness ==
    /\ pc = "done"
    /\ Len(visited) = 2
    /\ \A n \in Names : calls[n] = 1 /\ summaries[n] = FALLBACK

\* C5: one callAISummary call issues at most 3 requests, and when every
\* request failed (network error, non-success status, 429) it returns the
\* fallback sentinel; no state of the call is a thrown exception.
C5_BoundedAttempts ==
    /\ nreq <= retries
    /\ Len(outcomes) = nreq
    /\ cpc \in {"entry", "request", "sleep", "returned"}
    /\ cpc # "returned" => ENABLED NextCall
    /\ (/\ cpc = "returned"
        /\ outcomes # <<>>
        /\ \A k \in 1..Len(outcomes) : outcomes[k] \in {"429", "error", "throw"})
            => ret = FALLBACK

C5_Witness ==
    /\ cpc = "returned"
    /\ outcomes = <<"429", "throw", "error">>
    /\ nreq = 3
    /\ ret = FALLBACK

\* C6 as stated: each file is written exactly once per run, and neither is
\* written before the per-record loop has ended.
C6_Original ==
    /\ pc \in {"start", "fetch", "loop", "call", "delay"} =>
            outputWrites = 0 /\ stateWrites = 0
    /\ pc = "saveState" => outputWrites = 1 /\ stateWrites = 0
    /\ pc = "done" => outputWrites = 1 /\ stateWrites = 1

\* C6 amended: the result store is written exactly once, after the loop, in
\* both modes; the cursor file is written once, after the result store, in
\* daily mode; in weekly mode it is written twice, with 0 before the loop
\* starts and with 0 again after the result store.
C6_WritesAmended ==
    /\ pc \in {"start", "fetch", "loop", "call", "delay"} =>
            outputWrites = 0 /\ outputFile = outputFile0
    /\ pc \in {"saveState", "done"} => outputWrites = 1
    /\ pc \in {"start", "fetch", "exited"} =>
            stateWrites = 0 /\ stateFile = stateFile0
    /\ (~WEEKLY_MODE /\ pc \in {"loop", "call", "delay", "saveState"}) =>
            stateWrites = 0 /\ stateFile = stateFile0
    /\ (~WEEKLY_MODE /\ pc = "done") => stateWrites = 1
    /\ (WEEKLY_MODE /\ pc \in {"loop", "call", "delay", "saveState"}) =>
            stateWrites = 1 /\ stateFile = <<0>>
    /\ (WEEKLY_MODE /\ pc = "done") => stateWrites = 2 /\ stateFile = <<0>>

C6_Witness ==
    /\ WEEKLY_MODE
    /\ pc = "call"
    /\ cpc = "request"
    /\ stateFile0 = <<2>>
    /\ stateFile = <<0>>
    /\ stateWrites = 1
    /\ outputWrites = 0

\* what a failure at attempt a leads to: a retry after 2000 ms x a while
\* attempts remain, the fallback sentinel once they are exhausted
RetryOrFallback ==
    IF attempt < retries
    THEN cpc = "sleep" /\ waitTime = 2000 * attempt
    ELSE cpc = "returned" /\ ret = FALLBACK

\* C7 as stated: a non-success status, a network failure and a success
\* without text lead to the same next step at the same attempt number.
C7_Original ==
    (JustAnswered /\ LastOutcome \in {"error", "throw", "notext"}) =>
        IF attempt < retries THEN cpc = "sleep" ELSE cpc = "returned" /\ ret = FALLBACK

\* C7 amended: a non-success status other than 429 and a thrown request are
\* handled alike (retry after 2000 ms x attempt while attempts remain, fallback
\* after the last attempt); a success whose parsed body has no text is not
\* retried: it returns the fallback sentinel at once, at any attempt number.
C7_FailureHandlingAmended ==
    JustAnswered =>
        /\ LastOutcome \in {"error", "throw"} => RetryOrFallback
        /\ LastOutcome = "notext" => cpc = "returned" /\ ret = FALLBACK
        /\ nreq = attempt

C7_Witness ==
    /\ JustAnswered
    /\ outcomes = <<"notext">>
    /\ attempt = 1
    /\ cpc = "returned"
    /\ ret = FALLBACK
    /\ sleeps = <<>>

\* C8: 429 on the first k < 3 attempts and a success with text on attempt
\* k + 1 returns that text after exactly k sleeps, the j-th of 2^j x 3000 ms.
C8_RateLimitBackoff ==
    (/\ cpc = "returned"
     /\ outcomes # <<>>
     /\ LastOutcome = "text"
     /\ \A k \in 1..(Len(outcomes) - 1) : outcomes[k] = "429")
        => /\ ret = GeneratedText
           /\ Len(sleeps) = Len(outcomes) - 1
           /\ \A j \in 1..Len(sleeps) : sleeps[j] = (2 ^ j) * 3000

C8_Witness ==
    /\ cpc = "returned"
    /\ outcomes = <<"429", "429", "text">>
    /\ sleeps = <<6000, 12000>>
    /\ ret = GeneratedText

\* C9: for a record with zero evaluations or an empty or whitespace-only
\* comment string the call issues no request and returns the insufficient-data
\* message, which holds the record's link and is not the fallback sentinel.
C9_InsufficientData ==
    ((prof.numEvals = 0 \/ Blank(prof.comments)) /\ cpc # "entry") =>
        /\ cpc = "returned"
        /\ nreq = 0
        /\ outcomes = <<>>
        /\ sleeps = <<>>
        /\ Len(ret) = 4
        /\ ret[1] = "Professor "
        /\ ret[2] = prof.name
        /\ ret[4] = prof.link
        /\ ret # FALLBACK

C9_Witness ==
    /\ prof.numEvals = 3
    /\ prof.comments = <<" ", " ">>
    /\ cpc = "returned"
    /\ nreq = 0
    /\ ret[4] = prof.link

\* C10: once a CSV fetch has failed the process has exited with code 1: no
\* fetch was issued twice, callAISummary was never called, and neither file
\* was created or modified.
C10_FetchFailureAborts ==
    (\E u \in Urls : fetched[u] = "failed") =>
        /\ pc = "exited"
        /\ exitCode = <<1>>
        /\ ~ENABLED Next
        /\ \A u \in Urls : fetchCount[u] = 1
        /\ \A n \in Names : calls[n] = 0
        /\ cpc = "idle" /\ nreq = 0
        /\ visited = <<>>
        /\ outputWrites = 0 /\ outputFile = outputFile0
        /\ stateWrites = 0 /\ stateFile = stateFile0

C10_Witness ==
    /\ fetched["RATINGS_URL"] = "ok"
    /\ fetched["COMMENTS_URL"] = "failed"
    /\ pc = "exited"
    /\ WEEKLY_MODE
    /\ outputFile = <<>>
    /\ stateFile = <<>>

\* ------------------------ aggregation properties --------------------------
\* the names of all rows in the order the code reads them, blank ones left out
RowNames ==
    LET all == [k \in 1..(Len(ratings) + Len(comments)) |->
                   IF k <= Len(ratings)
                   THEN Trim(ratings[k].fullName)
                   ELSE Trim(comments[k - Len(ratings)].professor_name)]
    IN SelectSeq(all, LAMBDA nm : nm # <<>>)

FirstAppearance(name) ==
    CHOOSE k \in 1..Len(RowNames) :
        /\ RowNames[k] = <<name>>
        /\ \A j \in 1..(k - 1) : RowNames[j] # <<name>>

RatedBy(name) == {k \in 1..Len(ratings) : Trim(ratings[k].fullName) = <<name>>}
LastRatingsRow(name) ==
    ratings[CHOOSE k \in RatedBy(name) : \A j \in RatedBy(name) : j <= k]

\* C11: convertCSVToProfessorData yields exactly one record per distinct
\* non-empty trimmed name; the count and the link of a rated name are those of
\* the last ratings row with that name, whatever the comments rows hold; the
\* records stand in the order in which their names first appear (ratings rows
\* before comments rows).
C11_OneRecordPerName ==
    pc = "converted" =>
        /\ {<<professors[k].name>> : k \in 1..Len(professors)}
               = {RowNames[k] : k \in 1..Len(RowNames)}
        /\ \A j, k \in 1..Len(professors) :
               j < k => FirstAppearance(professors[j].name)
                           < FirstAppearance(professors[k].name)
        /\ \A k \in 1..Len(professors) :
               RatedBy(professors[k].name) # {} =>
                   LET row == LastRatingsRow(professors[k].name)
                   IN /\ professors[k].numEvals = OrZero(ParseInt(row.numEvals))
                      /\ professors[k].link = AllLinks[row.id]

\* a name with two different ratings rows and a comments row of its own,
\* after a record that the comments rows added
C11_Witness ==
    /\ pc = "converted"
    /\ Len(ratings) = 2
    /\ RatedBy("Ann Lee") = {1, 2}
    /\ ratings[1] # ratings[2]
    /\ Len(comments) = 2
    /\ Trim(comments[1].professor_name) = <<"Cy Ng">>
    /\ Trim(comments[2].professor_name) = <<"Ann Lee">>
    /\ Len(professors) = 2

\* the trimmed non-empty comments of a name, joined
JoinedComments(name) ==
    LET own == SelectSeq(comments, LAMBDA row :
                   Trim(row.professor_name) = <<name>> /\ Trim(row.rating_text) # <<>>)
    IN Join([k \in 1..Len(own) |-> Trim(own[k].rating_text)])

\* 0-based positions at or before the limit where a separator starts
SeparatorsBeforeLimit(str) ==
    {q \in 0..cutoff : q + Len(Separator) <= Len(str)
                        /\ SubSeq(str, q + 1, q + Len(Separator)) = Separator}

\* C12: when the joined comments are longer than the limit, the stored string
\* is never longer than the limit; it is the prefix of the join that ends at
\* the last separator starting at or before the limit, and the first `limit`
\* characters of the join when there is no such separator.
C12_CommentBound ==
    pc = "converted" =>
        \A k \in 1..Len(professors) :
            LET joined == JoinedComments(professors[k].name)
                seps == SeparatorsBeforeLimit(joined)
                stored == professors[k].comments
            IN IF Len(joined) > cutoff
               THEN /\ Len(stored) <= cutoff
                    /\ seps # {} =>
                          \E q \in seps : /\ \A r \in seps : r <= q
                                          /\ stored = SubSeq(joined, 1, q)
                    /\ seps = {} => stored = SubSeq(joined, 1, cutoff)
               ELSE stored = joined

\* a join longer than the limit with two separators before the limit, cut at
\* the second one
C12_Witness ==
    /\ pc = "converted"
    /\ Len(professors) = 1
    /\ Len(JoinedComments(professors[1].name)) > cutoff
    /\ Cardinality(SeparatorsBeforeLimit(JoinedComments(professors[1].name))) = 2
    /\ Len(professors[1].comments) < cutoff
    /\ Len(professors[1].comments) > 1

\* ---------------------------- concurrency --------------------------------
PendingFetches == {u \in Urls : fetched[u] = "pending"}
\* HTTP requests in flight while the process lives
Outstanding ==
    IF exitCode # <<>> THEN 0
    ELSE Cardinality(PendingFetches) + (IF cpc = "request" THEN 1 ELSE 0)

\* C13 as stated: at every point of a run at most one HTTP request (CSV fetch
\* or summary call) is outstanding.
C13_Original == Outstanding <= 1

\* C13: the two CSV fetches are issued together and may be outstanding at the
\* same time; no summary call is made before both have completed, and from
\* then on at most one request, a summary call, is outstanding.
C13_RequestsAmended ==
    /\ Outstanding <= Cardinality(Urls)
    /\ PendingFetches # {} => pc \in {"fetch", "exited"} /\ cpc = "idle"
    /\ cpc # "idle" => PendingFetches = {} /\ Outstanding <= 1

\* the request of a second summary call of the run is in flight
C13_Witness ==
    /\ cpc = "request"
    /\ Len(visited) = 2
    /\ calls[visited[1]] = 1
    /\ Outstanding = 1

\* ------------------------------- delays ----------------------------------
Called == {n \in Names : calls[n] > 0}

\* C14 as stated: the inter-request delay is performed between each two
\* consecutive callAISummary calls of a run and not after the last one, so a
\* finished run with k > 0 calls has slept k - 1 delays, and one without
\* calls none.
C14_DelayBetweenCalls ==
    pc = "done" =>
        Len(delays) = IF Called = {} THEN 0 ELSE Cardinality(Called) - 1

\* C15 as stated: inside callAISummary every sleep is followed by a further
\* request and none is performed after the last permitted attempt: a call
\* never sleeps as often as it may request, and a call that has returned has
\* issued a request after each of its sleeps.
C15_SleepOnlyBeforeRetry ==
    /\ Len(sleeps) < retries
    /\ cpc = "returned" => sleeps = <<>> \/ Len(sleeps) < Len(outcomes)

\* ------------------------------ frame ------------------------------------
\* callAISummary has returned a value for n in this run
Recomputed(n) == calls[n] > 0 /\ summaries[n] # <<>>

\* C16: the records of the selected range are reached in list order, and a
\* result-store entry that the run does not recompute (of a skipped record,
\* of a name outside the range, of a name not in the list) is the same after
\* the run as before it; the run adds no entry for such a name.
C16_OrderAndFrame ==
    /\ Len(visited) <= Len(RangeNames)
    /\ \A k \in 1..Len(visited) : visited[k] = RangeNames[k]
    /\ pc \in {"loop", "call", "delay", "saveState", "done"} =>
           \A n \in Names :
               ~Recomputed(n) =>
                   /\ n \in DOMAIN results <=> n \in DOMAIN Store0
                   /\ n \in DOMAIN Store0 => results[n] = Store0[n]
    /\ pc = "done" =>
           /\ visited = RangeNames
           /\ \A n \in Names :
                  ~Recomputed(n) => Stored(n) = IF n \in DOMAIN Store0
                                                THEN Store0[n] ELSE <<>>

\* a daily run over the first of two records: the record is skipped, the
\* second lies outside the range, both entries are as before
C16_Witness ==
    /\ pc = "done"
    /\ ~WEEKLY_MODE
    /\ Len(professors) = 2
    /\ visited = <<professors[1].name>>
    /\ skipped = 1
    /\ DOMAIN Store0 = Names
    /\ Store0[professors[2].name] = FALLBACK
    /\ outputFile = <<Store0>>
    /\ outputWrites = 1

\* ------------------------------ across runs ------------------------------
Persisted == IF outputFile = <<>> THEN EmptyMap ELSE outputFile[1]

\* C17: through any sequence of completed runs, daily or weekly, a name whose
\* persisted value is a non-fallback value keeps a non-fallback persisted
\* value: no step makes it the fallback sentinel or removes the name.
C17_NoRegressionAcrossRuns ==
    [][\A n \in Names : HasGoodSummary(Persisted, n) => HasGoodSummary(Persisted', n)]_vars

\* a weekly run after a run that stored a generated summary: the call fails
\* and the persisted value is still the generated summary
C17_Witness ==
    /\ run = 2
    /\ pc = "done"
    /\ WEEKLY_MODE
    /\ \E n \in Names :
        /\ n \in DOMAIN Store0
        /\ Store0[n] = GeneratedText
        /\ calls[n] = 1
        /\ summaries[n] = FALLBACK
        /\ Stored(n) = GeneratedText

\* the professor list of the runs, known once the first run has read the CSV
FixedList == convertCSVToProfessorData(ratings, comments)
\* ceil(L / B)
RunsToCover == (Len(FixedList) + DAILY_BATCH_SIZE - 1) \div DAILY_BATCH_SIZE
\* the range start of daily run number `run` when the first started at 0
ExpectedStart == ((run - 1) % RunsToCover) * DAILY_BATCH_SIZE

\* C18: with a fixed list of L > 0 records and cursor 0 before the first run,
\* consecutive completed daily runs cover the list without gaps: each run
\* starts where the previous one ended (0 after the end of the list was
\* reached), the persisted cursor is always in [0, L), and after ceil(L/B)
\* runs every record name has an entry in the result store and the cursor
\* is 0.
C18_DailyCoverage ==
    (allDaily /\ Len(FixedList) > 0) =>
        /\ stateFile # <<>> => stateFile[1] \in 0..(Len(FixedList) - 1)
        /\ Cursor0 = ExpectedStart
        /\ pc \in {"loop", "call", "delay", "saveState", "done"} =>
              /\ startIndex = ExpectedStart
              /\ endIndex = Min(ExpectedStart + DAILY_BATCH_SIZE, Len(FixedList))
        /\ pc = "done" =>
              stateFile = <<IF run % RunsToCover = 0 THEN 0 ELSE endIndex>>
        /\ (pc = "done" /\ run >= RunsToCover) =>
              \A k \in 1..Len(FixedList) : FixedList[k].name \in DOMAIN Persisted
        /\ (pc = "done" /\ run = RunsToCover) => stateFile = <<0>>

\* the second of two daily runs with batch size 1 over two records is done
C18_Witness ==
    /\ allDaily
    /\ run = 2
    /\ pc = "done"
    /\ Len(FixedList) = 2
    /\ DAILY_BATCH_SIZE = 1
    /\ Cursor0 = 1
    /\ stateFile = <<0>>
    /\ DOMAIN Persisted = Names

\* ------------------------------ write order ------------------------------
\* C19: in a daily run the cursor file is written only after the result
\* store: at every point, also after an abort, a cursor file that this run
\* has written or changed comes with a result store that holds the value
\* computed for each record of the whole range.
C19_StoreBeforeCursor ==
    (~WEEKLY_MODE /\ (stateWrites > 0 \/ stateFile # stateFile0)) =>
        /\ outputWrites = 1
        /\ outputFile = <<results>>
        /\ visited = RangeNames
        /\ \A n \in Names : Recomputed(n) => Stored(n) = summaries[n]

\* a daily run killed between the two writes: the results of its call are
\* in the store, the cursor is the one the run started from
C19_Witness ==
    /\ pc = "killed"
    /\ ~WEEKLY_MODE
    /\ outputWrites = 1
    /\ stateWrites = 0
    /\ stateFile = stateFile0
    /\ \E n \in Names : Recomputed(n) /\ Stored(n) = summaries[n]
    /\ outputFile # outputFile0

\* --------------------- professors without ratings ------------------------
\* the name stands in a comments row and in no ratings row
CommentsOnly(n) ==
    /\ \E k \in 1..Len(comments) : Trim(comments[k].professor_name) = <<n>>
    /\ RatedBy(n) = {}
RecordOf(n) == professors[CHOOSE k \in 1..Len(professors) : professors[k].name = n]

\* C20: a professor named only in comments rows has a record with numEvals 0;
\* in both modes a call for it issues no HTTP request and returns the
\* insufficient-data message, and the value a run stores for it is that
\* message: after a weekly run it is the stored value, after a daily run the
\* stored value is that message or the entry the run found and left alone,
\* and it is never a value generated or the sentinel returned in this run.
C20_CommentsOnlyProfessor ==
    \A n \in Names :
        CommentsOnly(n) =>
            /\ \E k \in 1..Len(professors) : professors[k].name = n
            /\ RecordOf(n).numEvals = 0
            /\ prof.name = n => nreq = 0 /\ cpc \in {"entry", "returned"}
            /\ summaries[n] \in {<<>>, InsufficientMessage(RecordOf(n))}
            /\ pc = "done" =>
                  /\ Recomputed(n) => Stored(n) = InsufficientMessage(RecordOf(n))
                  /\ ~Recomputed(n) => Stored(n) = IF n \in DOMAIN Store0
                                                    THEN Store0[n] ELSE <<>>
                  /\ WEEKLY_MODE => Recomputed(n)
                  /\ (~WEEKLY_MODE /\ ~Recomputed(n)) =>
                        \/ HasGoodSummary(Store0, n)
                        \/ \A k \in 1..Len(RangeNames) : RangeNames[k] # n

\* a daily run replaces the sentinel stored for a professor without ratings
\* by the insufficient-data message; a rated professor was called before it
C20_Witness ==
    /\ pc = "done"
    /\ ~WEEKLY_MODE
    /\ Len(visited) = 2
    /\ ~CommentsOnly(visited[1])
    /\ calls[visited[1]] = 1
    /\ CommentsOnly(visited[2])
    /\ calls[visited[2]] = 1
    /\ visited[2] \in DOMAIN Store0
    /\ Store0[visited[2]] = FALLBACK
    /\ Stored(visited[2]) = InsufficientMessage(RecordOf(visited[2]))

====
